---- MODULE Spec2Model ----
(***************************************************************************)
(* RooIgnoreController (src/src/core/ignore/RooIgnoreController.ts): the   *)
(* access-control engine driven by a hierarchy of .kilocodeignore files.   *)
(* Strings are TLA+ strings; paths are POSIX paths.                        *)
(***************************************************************************)
EXTENDS Integers, Sequences, FiniteSets, Bags, TLC

(***************************************************************************)
(* JavaScript string primitives used by the controller.                    *)
(***************************************************************************)

\* the value of an unset optional field (rooIgnoreContent, reloadTimeout)
Undefined == "<undefined>"

\* the failure of a filesystem call (fs.readFile, fs.realpathSync)
Throw == "<throw>"

\* the outcome of a call: a returned value, or an exception raised to the
\* caller (val is then a placeholder of the return type)
Returned(v) == [ok |-> TRUE, val |-> v]
Raised(v) == [ok |-> FALSE, val |-> v]

CharAt(s, i) == SubSeq(s, i, i)

IsSpace(c) == c \in {" ", "\n", "\t", "\r"}

\* String.prototype.startsWith
StartsWith(s, p) == Len(s) >= Len(p) /\ SubSeq(s, 1, Len(p)) = p

\* String.prototype.includes, for a single character
Includes(s, c) == \E i \in 1..Len(s) : CharAt(s, i) = c

\* String.prototype.trim
RECURSIVE TrimLeft(_)
TrimLeft(s) ==
    IF Len(s) > 0 /\ IsSpace(CharAt(s, 1)) THEN TrimLeft(SubSeq(s, 2, Len(s))) ELSE s

RECURSIVE TrimRight(_)
TrimRight(s) ==
    IF Len(s) > 0 /\ IsSpace(CharAt(s, Len(s)))
    THEN TrimRight(SubSeq(s, 1, Len(s) - 1)) ELSE s

Trim(s) == TrimRight(TrimLeft(s))

\* String.prototype.split(sep) for a one-character separator: the pieces
\* between separators, empty pieces kept
RECURSIVE SplitFrom(_, _, _)
SplitFrom(s, sep, i) ==
    LET hits == {j \in i..Len(s) : CharAt(s, j) = sep}
    IN IF hits = {} THEN <<SubSeq(s, i, Len(s))>>
       ELSE LET next == CHOOSE j \in hits : \A k \in hits : j <= k
            IN <<SubSeq(s, i, next - 1)>> \o SplitFrom(s, sep, next + 1)

Split(s, sep) == SplitFrom(s, sep, 1)

\* String.prototype.split(/\s+/): the pieces between runs of whitespace
RECURSIVE SplitWsFrom(_, _, _, _)
SplitWsFrom(s, i, cur, inRun) ==
    IF i > Len(s) THEN <<cur>>
    ELSE IF IsSpace(CharAt(s, i))
         THEN IF inRun THEN SplitWsFrom(s, i + 1, cur, TRUE)
              ELSE <<cur>> \o SplitWsFrom(s, i + 1, "", TRUE)
    ELSE SplitWsFrom(s, i + 1, cur \o CharAt(s, i), FALSE)

SplitWhitespace(s) == SplitWsFrom(s, 1, "", FALSE)

\* Array.prototype.join
RECURSIVE Join(_, _)
Join(parts, sep) ==
    IF Len(parts) = 0 THEN ""
    ELSE IF Len(parts) = 1 THEN parts[1]
    ELSE parts[1] \o sep \o Join(Tail(parts), sep)

\* String.prototype.toLowerCase on the letters that occur in commands
LowerChar(c) ==
    CASE c = "A" -> "a" [] c = "C" -> "c" [] c = "D" -> "d" [] c = "E" -> "e"
      [] c = "G" -> "g" [] c = "H" -> "h" [] c = "I" -> "i" [] c = "L" -> "l"
      [] c = "N" -> "n" [] c = "O" -> "o" [] c = "P" -> "p" [] c = "R" -> "r"
      [] c = "S" -> "s" [] c = "T" -> "t" [] c = "Y" -> "y"
      [] OTHER -> c

RECURSIVE ToLowerCase(_)
ToLowerCase(s) ==
    IF Len(s) = 0 THEN "" ELSE LowerChar(CharAt(s, 1)) \o ToLowerCase(SubSeq(s, 2, Len(s)))

\* String.prototype.toPosix (utils/path): backslashes become forward slashes
RECURSIVE ToPosix(_)
ToPosix(s) ==
    IF Len(s) = 0 THEN ""
    ELSE (IF CharAt(s, 1) = "\\" THEN "/" ELSE CharAt(s, 1)) \o ToPosix(SubSeq(s, 2, Len(s)))

(***************************************************************************)
(* Node's path module, POSIX flavour.                                      *)
(***************************************************************************)

\* path.isAbsolute
IsAbsolute(p) == StartsWith(p, "/")

\* the segments of a path with "", "." dropped and ".." resolved; a ".." that
\* would climb above the start is kept when keepUp (relative paths) and
\* dropped otherwise (absolute paths)
RECURSIVE NormalizeSegs(_, _, _)
NormalizeSegs(segs, acc, keepUp) ==
    IF Len(segs) = 0 THEN acc
    ELSE LET h == Head(segs) IN
         IF h = "" \/ h = "." THEN NormalizeSegs(Tail(segs), acc, keepUp)
         ELSE IF h = ".."
              THEN IF Len(acc) > 0 /\ acc[Len(acc)] # ".."
                   THEN NormalizeSegs(Tail(segs), SubSeq(acc, 1, Len(acc) - 1), keepUp)
                   ELSE IF keepUp THEN NormalizeSegs(Tail(segs), Append(acc, ".."), keepUp)
                        ELSE NormalizeSegs(Tail(segs), acc, keepUp)
         ELSE NormalizeSegs(Tail(segs), Append(acc, h), keepUp)

\* the segments of an absolute path
AbsSegs(p) == NormalizeSegs(Split(p, "/"), <<>>, FALSE)

\* an absolute path from its segments
FromSegs(segs) == "/" \o Join(segs, "/")

\* path.resolve(base, p), base absolute
Resolve(base, p) ==
    IF IsAbsolute(p) THEN FromSegs(AbsSegs(p)) ELSE FromSegs(AbsSegs(base \o "/" \o p))

\* path.dirname of an absolute normalized path
Dirname(p) ==
    LET segs == AbsSegs(p) IN
    IF Len(segs) = 0 THEN "/" ELSE FromSegs(SubSeq(segs, 1, Len(segs) - 1))

\* path.join(dir, name), dir absolute
PathJoin(dir, name) == FromSegs(AbsSegs(dir \o "/" \o name))

\* length of the common prefix of two segment lists
RECURSIVE CommonLen(_, _)
CommonLen(a, b) ==
    IF Len(a) = 0 \/ Len(b) = 0 \/ Head(a) # Head(b) THEN 0
    ELSE 1 + CommonLen(Tail(a), Tail(b))

\* path.relative(from, to), both absolute
Relative(from, to) ==
    LET f == AbsSegs(from)
        t == AbsSegs(to)
        c == CommonLen(f, t)
        ups == [i \in 1..(Len(f) - c) |-> ".."]
    IN Join(ups \o SubSeq(t, c + 1, Len(t)), "/")

(***************************************************************************)
(* The compiled matcher: the external gitignore-style engine ("ignore").   *)
(* An instance is the sequence of rules added so far, in order.  Covered   *)
(* syntax: comments, blank lines, "!" negation, leading "/" anchor,        *)
(* trailing "/" directory-only, "*" inside a segment and "**" across       *)
(* segments.                                                               *)
(***************************************************************************)

\* ignore(): a fresh matcher with no rules
EmptyIgnore == <<>>

\* checkPattern: a line is a rule unless it is blank or a comment
IsRuleLine(line) == Trim(line) # "" /\ ~StartsWith(line, "#")

\* createRule: a rule line compiled.  "!" negates; a final "/" restricts the
\* rule to directories; a "/" elsewhere anchors it at the root, and without
\* one it applies at any depth
CreateRule(line) ==
    LET pattern == TrimRight(line)
        negative == StartsWith(pattern, "!")
        body == IF negative THEN SubSeq(pattern, 2, Len(pattern)) ELSE pattern
        dirOnly == Len(body) > 0 /\ CharAt(body, Len(body)) = "/"
        core == IF dirOnly THEN SubSeq(body, 1, Len(body) - 1) ELSE body
        segs == Split(IF StartsWith(core, "/") THEN SubSeq(core, 2, Len(core)) ELSE core, "/")
    IN [pattern |-> pattern, negative |-> negative, dirOnly |-> dirOnly,
        segs |-> IF Includes(core, "/") THEN segs ELSE <<"**">> \o segs]

\* Ignore.add(text): the text is split on newlines and every rule line is
\* compiled and appended after the rules already present
RECURSIVE RuleLines(_)
RuleLines(lines) ==
    IF Len(lines) = 0 THEN <<>>
    ELSE (IF IsRuleLine(Head(lines)) THEN <<CreateRule(Head(lines))>> ELSE <<>>)
         \o RuleLines(Tail(lines))

IgnoreAdd(inst, text) == inst \o RuleLines(Split(text, "\n"))

\* "*" inside one path segment: any run of characters, possibly empty
RECURSIVE GlobMatch(_, _)
GlobMatch(pat, s) ==
    IF Len(pat) = 0 THEN Len(s) = 0
    ELSE IF CharAt(pat, 1) = "*"
         THEN \/ GlobMatch(SubSeq(pat, 2, Len(pat)), s)
              \/ Len(s) > 0 /\ GlobMatch(pat, SubSeq(s, 2, Len(s)))
    ELSE Len(s) > 0 /\ CharAt(pat, 1) = CharAt(s, 1)
         /\ GlobMatch(SubSeq(pat, 2, Len(pat)), SubSeq(s, 2, Len(s)))

\* a pattern's segments against all the segments of a path: a trailing "**"
\* stands for at least one segment, any other "**" for zero or more
RECURSIVE MatchSegs(_, _)
MatchSegs(psegs, segs) ==
    IF Len(psegs) = 0 THEN Len(segs) = 0
    ELSE IF Head(psegs) = "**"
         THEN IF Len(psegs) = 1 THEN Len(segs) >= 1
              ELSE \E k \in 0..Len(segs) :
                      MatchSegs(Tail(psegs), SubSeq(segs, k + 1, Len(segs)))
    ELSE Len(segs) >= 1 /\ GlobMatch(Head(psegs), Head(segs))
         /\ MatchSegs(Tail(psegs), Tail(segs))

\* rule.regex.test(path): the rule matches the whole path; a directory-only
\* rule matches only a path known to be a directory (written with a final "/")
RuleMatches(rule, segs, isDir) ==
    /\ rule.dirOnly => isDir
    /\ MatchSegs(rule.segs, segs)

\* _testOne: the last matching rule decides
RECURSIVE TestOne(_, _, _, _)
TestOne(inst, segs, isDir, ignored) ==
    IF Len(inst) = 0 THEN ignored
    ELSE TestOne(Tail(inst), segs, isDir,
                 IF RuleMatches(Head(inst), segs, isDir)
                 THEN ~Head(inst).negative ELSE ignored)

\* checkPath: the matcher rejects a path that is empty or not relative
IsInvalidPath(p) ==
    \/ p = ""
    \/ \E k \in 0..Len(p) - 1 :
          /\ \A i \in 1..k : CharAt(p, i) = "."
          /\ CharAt(p, k + 1) = "/"
    \/ \A i \in 1..Len(p) : CharAt(p, i) = "."

\* Ignore.ignores(path): raises on an invalid path; otherwise a path is
\* ignored when one of its parent directories is, or when it is itself
Ignores(inst, p) ==
    IF IsInvalidPath(p) THEN Raised(FALSE)
    ELSE LET all == Split(p, "/")
             isDir == all[Len(all)] = ""
             segs == IF isDir THEN SubSeq(all, 1, Len(all) - 1) ELSE all
         IN Returned(\/ \E k \in 1..Len(segs) - 1 :
                           TestOne(inst, SubSeq(segs, 1, k), TRUE, FALSE)
                     \/ TestOne(inst, segs, isDir, FALSE))

(***************************************************************************)
(* The workspace and its surroundings.                                     *)
(***************************************************************************)

\* this.cwd, the workspace root the controller is constructed for
cwd == "/test/path"

\* the fixed ignore-file name
IgnoreFileName == ".kilocodeignore"

\* the pattern registered after the user patterns to hide the ignore-files
SelfHidingRule == "**/.kilocodeignore"

LOCK_TEXT_SYMBOL == "<U+1F512>"

\* private readonly reloadDebounceMs
reloadDebounceMs == 300

\* granularity of the clock: half the debounce delay
TickMs == reloadDebounceMs \div 2

\* states of an ignore-file on disk other than its text
Absent == "<absent>"
Unreadable == "<unreadable>"

\* the patterns of the ignore-file in cwd, and of the one above cwd
CwdPatterns == "secrets/**\n!important.log"
ParentPatterns == "*.log\npath/src/app.ts"

\* what the ignore-file at a path may be on disk: the one in cwd holds
\* nothing but whitespace, or a pattern and a negation; the one above cwd is
\* empty, or holds a pattern the negation conflicts with and one that names
\* a file of cwd by its path from the directory above
FileStates(filePath) ==
    {Absent, Unreadable}
    \cup (IF filePath = PathJoin(cwd, IgnoreFileName)
          THEN {"  \n", CwdPatterns}
          ELSE {"", ParentPatterns})

\* the directories the upward walk visits from a start directory: the start
\* directory and its ancestors, the filesystem root excluded
RECURSIVE WalkDirs(_)
WalkDirs(currentPath) ==
    IF currentPath # Dirname(currentPath)
    THEN <<currentPath>> \o WalkDirs(Dirname(currentPath))
    ELSE <<>>

\* the directories the walk from cwd visits
HierarchyDirs == WalkDirs(cwd)

\* the ignore-file paths of the hierarchy of cwd
HierarchyFiles == {PathJoin(HierarchyDirs[i], IgnoreFileName) : i \in 1..Len(HierarchyDirs)}

\* start directories of the upward walk: the filesystem root, directories at
\* several depths, and spellings path.resolve normalizes
StartDirs ==
    {"/", "/test", "/test/path", "/test/path/src", "/srv/", "/test/./path/../path"}

\* the ignore-file paths of every directory on the way from a start
\* directory to the filesystem root, the root's own included
WalkFiles ==
    UNION {{PathJoin(FromSegs(SubSeq(AbsSegs(s), 1, k)), IgnoreFileName) :
               k \in 0..Len(AbsSegs(s))} : s \in StartDirs}

\* the directories a walk from cwd or from one of these visits or stops at
WalkedDirs ==
    UNION {{FromSegs(SubSeq(AbsSegs(s), 1, k)) : k \in 0..Len(AbsSegs(s))} :
              s \in StartDirs \cup {cwd}}

\* path.dirname of these directories and the ignore-file path in each,
\* computed once
DirnameOfWalked == [d \in WalkedDirs |-> Dirname(d)]

IgnoreFileOfWalked == [d \in WalkedDirs |-> PathJoin(d, IgnoreFileName)]

\* path.dirname(currentPath)
DirnameOf(currentPath) ==
    IF currentPath \in WalkedDirs THEN DirnameOfWalked[currentPath] ELSE Dirname(currentPath)

\* path.join(currentPath, ".kilocodeignore")
IgnoreFileIn(currentPath) ==
    IF currentPath \in WalkedDirs THEN IgnoreFileOfWalked[currentPath]
    ELSE PathJoin(currentPath, IgnoreFileName)

\* symbolic links on disk: link path |-> real path of its target
SymlinkTarget ==
    [p \in {"/test/path/link", "/test/path/outlink", "/test/path/secrets/ext",
            "/test/path/shared/.kilocodeignore", "/test/path/alias/.kilocodeignore",
            "/test/path/secrets/safe"} |->
        IF p = "/test/path/link" THEN "/test/path/secrets/key"
        ELSE IF p = "/test/path/secrets/safe" THEN "/test/path/src/app.ts"
        ELSE IF p = "/test/path/alias/.kilocodeignore" THEN "/test/path/src/rules.txt"
        ELSE "/private/target"]

\* paths fs.realpathSync fails on (nothing there, or a broken link)
Dangling == {"/test/path/missing.txt", "/test/path/secrets/missing"}

\* fs.realpathSync returning its argument: links are not followed
RealpathSyncNoFollow(p) == p

\* fs.realpathSync
RealpathSync(p) ==
    IF p \in DOMAIN SymlinkTarget THEN SymlinkTarget[p]
    ELSE IF p \in Dangling THEN Throw
    ELSE p

\* candidate paths handed to the validators
Paths ==
    {"src/app.ts", "secrets/key", "important.log", "debug.log", "link", "outlink",
     "../outside", "/etc/passwd", "", "secrets/../../outside", "secrets/ext",
     "/test/path/secrets/ext", "/test/path/secrets/key"}

\* command lines handed to validateCommand
Commands ==
    {"cat secrets/key", "ls secrets/key", "CAT -n debug.log ../outside", "  ",
     "grep key src/app.ts debug.log secrets/key",
     "cat src/app.ts | head /secrets/key x:debug.log secrets/key",
     "cat -debug.log /test/path/secrets/key secrets/a:b src/app.ts"}

\* path lists handed to filterPaths
PathLists ==
    {<<>>, <<"src/app.ts", "secrets/key", "", "src/app.ts", "debug.log", "important.log">>}

\* candidate paths that name an ignore-file in or below cwd: plain files,
\* written relative or absolute, a link leading out of cwd and a link to
\* another file in cwd
IgnoreFilePaths ==
    {".kilocodeignore", "src/.kilocodeignore", "secrets/../.kilocodeignore",
     "/test/path/.kilocodeignore", "shared/.kilocodeignore",
     "/test/path/shared/.kilocodeignore", "alias/.kilocodeignore"}

\* candidate paths that are links to a file in cwd: one whose target the
\* patterns name, and two whose own name they name
LinkPaths == {"link", "secrets/safe", "alias/.kilocodeignore"}

\* command.trim().split(/\s+/)
Tokens(command) == SplitWhitespace(Trim(command))

\* Tokens of the commands above, computed once
TokensOfCommands == [c \in Commands |-> Tokens(c)]

\* whether validateCommand's loop passes over a token without validating it
Skipped(arg) == StartsWith(arg, "-") \/ StartsWith(arg, "/") \/ Includes(arg, ":")

\* each command above without the skipped tokens among its arguments, and
\* the tokens of these, computed once
Unskipped ==
    [c \in Commands |->
        Join(<<TokensOfCommands[c][1]>>
                 \o SelectSeq(Tail(TokensOfCommands[c]), LAMBDA arg : ~Skipped(arg)), " ")]

TokensOfUnskipped == [c \in {Unskipped[d] : d \in Commands} |-> Tokens(c)]

PartsOf(command) ==
    IF command \in Commands THEN TokensOfCommands[command]
    ELSE IF command \in DOMAIN TokensOfUnskipped THEN TokensOfUnskipped[command]
    ELSE Tokens(command)

\* every string the validators are handed as a candidate path: the paths
\* above, the tokens of the commands, the elements of the lists, the
\* ignore-file paths and the links
Candidates ==
    Paths
    \cup UNION {{TokensOfCommands[c][i] : i \in 1..Len(TokensOfCommands[c])} : c \in Commands}
    \cup UNION {{l[i] : i \in 1..Len(l)} : l \in PathLists}
    \cup IgnoreFilePaths
    \cup LinkPaths

(***************************************************************************)
(* The validators: synchronous reads of rooIgnoreContent and               *)
(* ignoreInstance.                                                         *)
(***************************************************************************)

\* !this.rooIgnoreContent
NoContent(content) == content = Undefined \/ content = ""

\* validateAccess's relativePath taken from the directory above cwd
RelativePathFromParent(filePath) ==
    LET absolutePath == Resolve(cwd, filePath)
        resolved == RealpathSync(absolutePath)
        realPath == IF resolved = Throw THEN absolutePath ELSE resolved
        rel == ToPosix(Relative(Dirname(cwd), realPath))
    IN IF StartsWith(rel, "../") \/ IsAbsolute(rel) THEN ToPosix(filePath) ELSE rel

\* the relativePath of validateAccess's try: the candidate is resolved
\* against cwd, symlinks are followed, and the result is taken relative to
\* cwd; a relative path leaving cwd is replaced by the candidate as given
RelativePathOf(filePath) ==
    LET absolutePath == Resolve(cwd, filePath)
        resolved == RealpathSync(absolutePath)
        realPath == IF resolved = Throw THEN absolutePath ELSE resolved
        rel == ToPosix(Relative(cwd, realPath))
    IN IF StartsWith(rel, "../") \/ IsAbsolute(rel) THEN ToPosix(filePath) ELSE rel

\* RelativePathOf of the candidates, computed once: it depends on the
\* candidate and the disk's links only, not on the controller's state
RelativePaths == [p \in Candidates |-> RelativePathOf(p)]

\* the body of validateAccess's try asking the matcher about the candidate
\* as given as well as about what it resolves to
CheckIgnoredEitherName(inst, filePath) ==
    LET relativePath == IF filePath \in Candidates THEN RelativePaths[filePath]
                        ELSE RelativePathOf(filePath)
        ignored == Ignores(inst, relativePath)
        named == Ignores(inst, ToPosix(filePath))
    IN IF ignored.ok
       THEN Returned(~(ignored.val \/ (named.ok /\ named.val)))
       ELSE Raised(TRUE)

\* the body of validateAccess's try: the relativePath of the candidate is
\* handed to the matcher
CheckIgnored(inst, filePath) ==
    LET relativePath == IF filePath \in Candidates THEN RelativePaths[filePath]
                        ELSE RelativePathOf(filePath)
        ignored == Ignores(inst, relativePath)
    IN IF ignored.ok THEN Returned(~ignored.val) ELSE Raised(TRUE)

\* validateAccess with the "no content" early return left out
ValidateAccessNoSentinel(content, inst, filePath) ==
    LET r == CheckIgnored(inst, filePath) IN IF r.ok THEN r ELSE Returned(TRUE)

\* validateAccess with the catch left out
ValidateAccessNoCatch(content, inst, filePath) ==
    IF NoContent(content) THEN Returned(TRUE) ELSE CheckIgnored(inst, filePath)

\* validateAccess against a given pair (rooIgnoreContent, ignoreInstance)
ValidateAccessIn(content, inst, filePath) ==
    IF NoContent(content) THEN Returned(TRUE)
    ELSE LET r == CheckIgnored(inst, filePath) IN IF r.ok THEN r ELSE Returned(TRUE)

\* the file-reading commands
fileReadingCommands ==
    {"cat", "less", "more", "head", "tail", "grep", "awk", "sed",
     "get-content", "gc", "type", "select-string", "sls"}

\* the scan of parts[i..] returning the last inaccessible argument
RECURSIVE ScanArgsLast(_, _, _, _)
ScanArgsLast(content, inst, parts, i) ==
    IF i > Len(parts) THEN Returned(Undefined)
    ELSE LET arg == parts[i]
             rest == ScanArgsLast(content, inst, parts, i + 1)
         IN IF rest.val # Undefined THEN rest
            ELSE IF StartsWith(arg, "-") \/ StartsWith(arg, "/") \/ Includes(arg, ":") THEN rest
            ELSE IF ~ValidateAccessIn(content, inst, arg).val THEN Returned(arg)
            ELSE rest

\* the scan of parts[i..] skipping flags written with "-" and colon tokens
\* only
RECURSIVE ScanArgsSlashNotSkipped(_, _, _, _)
ScanArgsSlashNotSkipped(content, inst, parts, i) ==
    IF i > Len(parts) THEN Returned(Undefined)
    ELSE LET arg == parts[i] IN
         IF StartsWith(arg, "-") THEN ScanArgsSlashNotSkipped(content, inst, parts, i + 1)
         ELSE IF Includes(arg, ":") THEN ScanArgsSlashNotSkipped(content, inst, parts, i + 1)
         ELSE LET ok == ValidateAccessIn(content, inst, arg) IN
              IF ~ok.ok THEN Raised(Undefined)
              ELSE IF ~ok.val THEN Returned(arg)
              ELSE ScanArgsSlashNotSkipped(content, inst, parts, i + 1)

\* the scan of parts[i..] for the first inaccessible argument
RECURSIVE ScanArgs(_, _, _, _)
ScanArgs(content, inst, parts, i) ==
    IF i > Len(parts) THEN Returned(Undefined)
    ELSE LET arg == parts[i] IN
         IF StartsWith(arg, "-") \/ StartsWith(arg, "/") THEN ScanArgs(content, inst, parts, i + 1)
         ELSE IF Includes(arg, ":") THEN ScanArgs(content, inst, parts, i + 1)
         ELSE LET ok == ValidateAccessIn(content, inst, arg) IN
              IF ~ok.ok THEN Raised(Undefined)
              ELSE IF ~ok.val THEN Returned(arg)
              ELSE ScanArgs(content, inst, parts, i + 1)

\* validateCommand scanning the arguments of any command
ValidateCommandAnyBase(content, inst, command) ==
    IF NoContent(content) THEN Returned(Undefined)
    ELSE ScanArgs(content, inst, PartsOf(command), 2)

\* validateCommand against a given pair (rooIgnoreContent, ignoreInstance)
ValidateCommandIn(content, inst, command) ==
    IF NoContent(content) THEN Returned(Undefined)
    ELSE LET parts == PartsOf(command)
             baseCommand == ToLowerCase(parts[1])
         IN IF baseCommand \in fileReadingCommands
            THEN ScanArgs(content, inst, parts, 2)
            ELSE Returned(Undefined)

\* the paths of a list of {path, allowed} pairs
PathsOf(pairs) == [i \in 1..Len(pairs) |-> pairs[i].path]

\* filterPaths' chain returning the kept paths in reverse order
FilterByOutcomesReversed(paths, outcomes) ==
    LET pairs == [i \in 1..Len(paths) |-> [path |-> paths[i], allowed |-> outcomes[i].val]]
    IN IF \E i \in 1..Len(paths) : ~outcomes[i].ok THEN Returned(<<>>)
       ELSE LET kept == PathsOf(SelectSeq(pairs, LAMBDA x : x.allowed))
            IN Returned([i \in 1..Len(kept) |-> kept[Len(kept) + 1 - i]])

\* filterPaths' chain returning what was kept before the first failure
FilterByOutcomesPartial(paths, outcomes) ==
    LET failing == {i \in 1..Len(paths) : ~outcomes[i].ok}
        upTo == IF failing = {} THEN Len(paths)
                ELSE (CHOOSE i \in failing : \A j \in failing : i <= j) - 1
        pairs == [i \in 1..upTo |-> [path |-> paths[i], allowed |-> outcomes[i].val]]
    IN Returned(PathsOf(SelectSeq(pairs, LAMBDA x : x.allowed)))

\* filterPaths' map/filter/map chain and its catch, given the outcome of the
\* validateAccess call made for each element: a call that raises ends the
\* chain with the empty list
FilterByOutcomes(paths, outcomes) ==
    LET pairs == [i \in 1..Len(paths) |-> [path |-> paths[i], allowed |-> outcomes[i].val]]
    IN IF \E i \in 1..Len(paths) : ~outcomes[i].ok THEN Returned(<<>>)
       ELSE Returned(PathsOf(SelectSeq(pairs, LAMBDA x : x.allowed)))

\* filterPaths against a given pair (rooIgnoreContent, ignoreInstance)
FilterPathsIn(content, inst, paths) ==
    FilterByOutcomes(paths, [i \in 1..Len(paths) |-> ValidateAccessIn(content, inst, paths[i])])

\* getInstructions giving the fixed text without the combined content
GetInstructionsWithoutContent(content) ==
    IF NoContent(content) THEN Returned(Undefined)
    ELSE Returned("# .kilocodeignore\n\n(The following is provided by one or more .kilocodeignore files where the user has specified files and directories that should not be accessed. Multiple files are merged with hierarchical precedence - more specific directories override parent patterns. When using list_files, you'll notice a "
         \o LOCK_TEXT_SYMBOL
         \o " next to files that are blocked. Attempting to access the file's contents e.g. through read_file will result in an error.)\n\n"
         \o "\n**/.kilocodeignore")

\* getInstructions for a given rooIgnoreContent
GetInstructionsOf(content) ==
    IF NoContent(content) THEN Returned(Undefined)
    ELSE Returned("# .kilocodeignore\n\n(The following is provided by one or more .kilocodeignore files where the user has specified files and directories that should not be accessed. Multiple files are merged with hierarchical precedence - more specific directories override parent patterns. When using list_files, you'll notice a "
         \o LOCK_TEXT_SYMBOL
         \o " next to files that are blocked. Attempting to access the file's contents e.g. through read_file will result in an error.)\n\n"
         \o content \o "\n**/.kilocodeignore")

(***************************************************************************)
(* Bounds of the model.                                                    *)
(***************************************************************************)

\* changes made to the ignore-files of the hierarchy
MaxFsChanges == 1

\* change notifications delivered to the controller
MaxNotifications == 2

\* reloads started, by initialize() or by a timer
MaxReloads == 2

\* dispose() calls whose effect is recorded
MaxDisposes == 2

(***************************************************************************)
(* State.                                                                  *)
(***************************************************************************)

\* reloadTimeout when no timer handle has been stored yet
NoTimer == 0

VARIABLES
    files,              \* disk: ignore-file path |-> Absent, Unreadable or its text
    rooIgnoreContent,   \* this.rooIgnoreContent
    ignoreInstance,     \* this.ignoreInstance
    disposables,        \* this.disposables
    registered,         \* host side: the subscriptions and watcher still live
    reloadTimeout,      \* this.reloadTimeout: the last handle setTimeout returned
    timers,             \* host side: armed timers, [id, remaining]
    timersCreated,      \* setTimeout calls so far (the source of fresh handles)
    inflight,           \* bag of loadRooIgnore activations suspended at an await
    sinceNotify,        \* history: time since the last notification, capped
    burst,              \* history: every notification so far came less than
                        \* reloadDebounceMs after the one before it
    timerReloads,       \* history: reloads started by a timer
    initCalls,          \* history: initialize() calls
    fsChanges,          \* history: changes made to the hierarchy's files
    changedAfterDispose,\* history: an ignore-file changed after dispose()
    recording,          \* whether the three histories below are kept
    disposeLog,         \* history: for each dispose() call so far, the
                        \* disposables whose dispose() it called, in order,
                        \* and whether a reload was in flight at the call
    pre,                \* history: the state a reload running alone started from
    lastDone            \* history: what the reload that finished last did

engine == <<rooIgnoreContent, ignoreInstance, disposables, reloadTimeout>>
host == <<files, registered, timers, timersCreated>>
history == <<sinceNotify, burst, timerReloads, initCalls, fsChanges,
             changedAfterDispose, recording, disposeLog, pre, lastDone>>
vars == <<engine, host, inflight, history>>

NoPre == [solo |-> FALSE, content |-> Undefined, inst |-> EmptyIgnore]
NoneDone ==
    [n |-> 0, start |-> Undefined, found |-> <<>>, reads |-> <<>>, failed |-> FALSE,
     fresh |-> FALSE, had |-> FALSE, solo |-> FALSE]

\* the validators on the current engine state
validateAccess(filePath) == ValidateAccessIn(rooIgnoreContent, ignoreInstance, filePath)
validateCommand(command) == ValidateCommandIn(rooIgnoreContent, ignoreInstance, command)
filterPaths(paths) == FilterPathsIn(rooIgnoreContent, ignoreInstance, paths)
getInstructions == GetInstructionsOf(rooIgnoreContent)

\* setupFileWatcher: the three event subscriptions, then the watcher itself
setupFileWatcher == <<"onDidChange", "onDidCreate", "onDidDelete", "fileWatcher">>

\* constructor
Construct ==
    /\ rooIgnoreContent = Undefined
    /\ ignoreInstance = EmptyIgnore
    /\ disposables = setupFileWatcher
    /\ registered = {setupFileWatcher[i] : i \in 1..Len(setupFileWatcher)}
    /\ reloadTimeout = NoTimer
    /\ timers = {}
    /\ timersCreated = 0
    /\ inflight = EmptyBag
    /\ sinceNotify = reloadDebounceMs
    /\ burst = TRUE
    /\ timerReloads = 0
    /\ initCalls = 0
    /\ fsChanges = 0
    /\ changedAfterDispose = FALSE
    /\ disposeLog = <<>>
    /\ pre = NoPre
    /\ lastDone = NoneDone

\* after construction, the disk holding any ignore-files
Init ==
    /\ Construct
    /\ files \in [HierarchyFiles -> UNION {FileStates(f) : f \in HierarchyFiles}]
    /\ \A f \in HierarchyFiles : files[f] \in FileStates(f)
    /\ recording = TRUE

(***************************************************************************)
(* loadRooIgnore.  An activation runs from one await to the next in one    *)
(* step; what it reads from disk is the disk as it is when the awaited     *)
(* call completes.                                                         *)
(***************************************************************************)

\* the list left in the order the walk found the files
ReverseNot(s) == s

\* Array.prototype.reverse
Reverse(s) == [i \in 1..Len(s) |-> s[Len(s) + 1 - i]]

\* the activation record once the first fs.access of the walk is issued:
\* the walk starts from this.cwd
NewReload ==
    [pc |-> "access", start |-> cwd, cur |-> Resolve(cwd, "."), found |-> <<>>, idx |-> 0,
     combined |-> <<>>, reads |-> <<>>]

\* history kept when an activation ends: the directory its walk started
\* from, the files it found, what each read
\* gave, whether it ended in the outer catch, whether content was loaded
\* when it ended, and whether it overlapped no other activation; fresh until
\* the next reload starts
Done(r, failed) ==
    IF recording
    THEN [n |-> 1, start |-> r.start, found |-> r.found, reads |-> r.reads,
          failed |-> failed, fresh |-> TRUE,
          had |-> ~NoContent(rooIgnoreContent),
          solo |-> (inflight = EmptyBag \/ pre.solo)]
    ELSE NoneDone

\* loadRooIgnore keeping the matcher it finds instead of a fresh one
loadRooIgnoreNoReset ==
    /\ initCalls + timerReloads < MaxReloads
    /\ ignoreInstance' = ignoreInstance
    /\ pre' = IF inflight = EmptyBag /\ recording
              THEN [solo |-> TRUE, content |-> rooIgnoreContent, inst |-> ignoreInstance]
              ELSE NoPre
    /\ IF HierarchyDirs # <<>>
       THEN /\ inflight' = inflight (+) SetToBag({NewReload})
            /\ rooIgnoreContent' = rooIgnoreContent
            /\ lastDone' = [lastDone EXCEPT !.fresh = FALSE]
       ELSE /\ inflight' = inflight
            /\ rooIgnoreContent' = Undefined
            /\ lastDone' = Done(NewReload, FALSE)

\* loadRooIgnore up to its first await: the matcher is replaced by a fresh
\* one, and the walk issues its first fs.access
loadRooIgnore ==
    /\ initCalls + timerReloads < MaxReloads
    /\ ignoreInstance' = EmptyIgnore
    /\ pre' = IF inflight = EmptyBag /\ recording
              THEN [solo |-> TRUE, content |-> rooIgnoreContent, inst |-> ignoreInstance]
              ELSE NoPre
    /\ IF HierarchyDirs # <<>>
       THEN /\ inflight' = inflight (+) SetToBag({NewReload})
            /\ rooIgnoreContent' = rooIgnoreContent
            /\ lastDone' = [lastDone EXCEPT !.fresh = FALSE]
       ELSE /\ inflight' = inflight
            /\ rooIgnoreContent' = Undefined
            /\ lastDone' = Done(NewReload, FALSE)

\* loadRooIgnore of a controller constructed for targetPath, up to the first
\* await of findKilocodeIgnoreFiles(targetPath): the start directory is
\* resolved and the loop entered unless it is its own parent
findKilocodeIgnoreFiles(targetPath) ==
    /\ initCalls = 0
    /\ initCalls' = initCalls + 1
    /\ ignoreInstance' = EmptyIgnore
    /\ pre' = NoPre
    /\ LET currentPath == Resolve(targetPath, ".")
           r == [NewReload EXCEPT !.start = targetPath, !.cur = currentPath]
       IN IF currentPath # Dirname(currentPath)
          THEN /\ inflight' = inflight (+) SetToBag({r})
               /\ rooIgnoreContent' = rooIgnoreContent
               /\ lastDone' = [lastDone EXCEPT !.fresh = FALSE]
          ELSE /\ inflight' = inflight
               /\ rooIgnoreContent' = Undefined
               /\ lastDone' = Done(r, FALSE)
    /\ UNCHANGED <<disposables, reloadTimeout, host>>
    /\ UNCHANGED <<sinceNotify, burst, timerReloads, fsChanges, changedAfterDispose,
                   recording, disposeLog>>

\* the walk going on until the directory it has just tested is its own
\* parent, so that the filesystem root is tested too
AccessDoneThroughRoot(r) ==
    /\ r \in BagToSet(inflight)
    /\ r.pc = "access"
    /\ LET kilocodeIgnorePath == IgnoreFileIn(r.cur)
           exists == files[kilocodeIgnorePath] # Absent
           found == IF exists THEN Append(r.found, kilocodeIgnorePath) ELSE r.found
           currentPath == DirnameOf(r.cur)
           rest == inflight (-) SetToBag({r})
       IN IF r.cur # DirnameOf(r.cur)
          THEN /\ inflight' = rest (+) SetToBag({[r EXCEPT !.cur = currentPath, !.found = found]})
               /\ UNCHANGED <<rooIgnoreContent, pre, lastDone>>
          ELSE IF Len(found) = 0
          THEN /\ inflight' = rest
               /\ rooIgnoreContent' = Undefined
               /\ pre' = NoPre
               /\ lastDone' = Done([r EXCEPT !.found = found], FALSE)
          ELSE /\ inflight' = rest (+) SetToBag({[r EXCEPT !.pc = "read", !.cur = currentPath,
                                                          !.found = Reverse(found), !.idx = 1]})
               /\ UNCHANGED <<rooIgnoreContent, pre, lastDone>>
    /\ UNCHANGED <<ignoreInstance, disposables, reloadTimeout, host>>
    /\ UNCHANGED <<sinceNotify, burst, timerReloads, initCalls, fsChanges, changedAfterDispose,
                   recording, disposeLog>>

\* findKilocodeIgnoreFiles: one fs.access completes; the walk moves up, and
\* after the last directory the list is reversed and the reads begin
AccessDone(r) ==
    /\ r \in BagToSet(inflight)
    /\ r.pc = "access"
    /\ LET kilocodeIgnorePath == IgnoreFileIn(r.cur)
           exists == files[kilocodeIgnorePath] # Absent
           found == IF exists THEN Append(r.found, kilocodeIgnorePath) ELSE r.found
           currentPath == DirnameOf(r.cur)
           rest == inflight (-) SetToBag({r})
       IN IF currentPath # DirnameOf(currentPath)
          THEN /\ inflight' = rest (+) SetToBag({[r EXCEPT !.cur = currentPath, !.found = found]})
               /\ UNCHANGED <<rooIgnoreContent, pre, lastDone>>
          ELSE IF Len(found) = 0
          THEN /\ inflight' = rest
               /\ rooIgnoreContent' = Undefined
               /\ pre' = NoPre
               /\ lastDone' = Done([r EXCEPT !.found = found], FALSE)
          ELSE /\ inflight' = rest (+) SetToBag({[r EXCEPT !.pc = "read", !.cur = currentPath,
                                                          !.found = Reverse(found), !.idx = 1]})
               /\ UNCHANGED <<rooIgnoreContent, pre, lastDone>>
    /\ UNCHANGED <<ignoreInstance, disposables, reloadTimeout, host>>
    /\ UNCHANGED <<sinceNotify, burst, timerReloads, initCalls, fsChanges, changedAfterDispose,
                   recording, disposeLog>>

\* fs.readFile: the text of a readable file, a failure otherwise
ReadFile(filePath) ==
    IF files[filePath] \in {Absent, Unreadable} THEN Throw ELSE files[filePath]

\* the per-file try body with the whitespace test left out
ContentBlockNoTrim(filePath, content) ==
    <<"# From: " \o Relative(cwd, filePath), content>>

\* the per-file try body pushing the provenance comment of a file whose text
\* is only whitespace
ContentBlockCommentOnly(filePath, content) ==
    IF Trim(content) # ""
    THEN <<"# From: " \o Relative(cwd, filePath), content>>
    ELSE <<"# From: " \o Relative(cwd, filePath)>>

\* the body of the per-file try: a file whose text is more than whitespace
\* contributes a provenance comment and its text
ContentBlock(filePath, content) ==
    IF Trim(content) # ""
    THEN <<"# From: " \o Relative(cwd, filePath), content>>
    ELSE <<>>

\* the per-file catch dropping what was collected so far
PushContentResetOnError(combinedContent, filePath, content) ==
    IF content = Throw THEN <<>>
    ELSE combinedContent \o ContentBlock(filePath, content)

\* the per-file try/catch keeping only what the file just read contributes
PushContentKeepsLast(combinedContent, filePath, content) ==
    IF content = Throw THEN combinedContent
    ELSE ContentBlock(filePath, content)

\* the per-file try/catch putting each file's block before those collected
\* so far
PushContentPrepends(combinedContent, filePath, content) ==
    IF content = Throw THEN combinedContent
    ELSE ContentBlock(filePath, content) \o combinedContent

\* the per-file try/catch: a failed read is warned about and contributes
\* nothing; what was collected before it is kept
PushContent(combinedContent, filePath, content) ==
    IF content = Throw THEN combinedContent
    ELSE combinedContent \o ContentBlock(filePath, content)

\* a reload that stores and compiles what it has collected after every
\* file, not only after the last
ReadDoneInstallsEachFile(r) ==
    /\ r \in BagToSet(inflight)
    /\ r.pc = "read"
    /\ LET filePath == r.found[r.idx]
           content == ReadFile(filePath)
           combinedContent == PushContent(r.combined, filePath, content)
           reads == Append(r.reads, content)
           rest == inflight (-) SetToBag({r})
       IN /\ IF r.idx < Len(r.found)
             THEN /\ inflight' = rest (+) SetToBag({[r EXCEPT !.idx = r.idx + 1,
                                                             !.combined = combinedContent,
                                                             !.reads = reads]})
                  /\ UNCHANGED <<pre, lastDone>>
             ELSE /\ inflight' = rest
                  /\ pre' = NoPre
                  /\ lastDone' = Done([r EXCEPT !.reads = reads], FALSE)
          /\ IF Len(combinedContent) > 0
             THEN /\ rooIgnoreContent' = Join(combinedContent, "\n")
                  /\ ignoreInstance' =
                         IgnoreAdd(IgnoreAdd(EmptyIgnore, Join(combinedContent, "\n")),
                                   SelfHidingRule)
             ELSE /\ rooIgnoreContent' = Undefined
                  /\ ignoreInstance' = ignoreInstance
    /\ UNCHANGED <<disposables, reloadTimeout, host>>
    /\ UNCHANGED <<sinceNotify, burst, timerReloads, initCalls, fsChanges, changedAfterDispose,
                   recording, disposeLog>>

\* one fs.readFile completes; after the last file the combined content is
\* stored and compiled into this.ignoreInstance
ReadDone(r) ==
    /\ r \in BagToSet(inflight)
    /\ r.pc = "read"
    /\ LET filePath == r.found[r.idx]
           content == ReadFile(filePath)
           combinedContent == PushContent(r.combined, filePath, content)
           reads == Append(r.reads, content)
           rest == inflight (-) SetToBag({r})
       IN IF r.idx < Len(r.found)
          THEN /\ inflight' = rest (+) SetToBag({[r EXCEPT !.idx = r.idx + 1,
                                                          !.combined = combinedContent,
                                                          !.reads = reads]})
               /\ UNCHANGED <<rooIgnoreContent, ignoreInstance, pre, lastDone>>
          ELSE /\ inflight' = rest
               /\ pre' = NoPre
               /\ lastDone' = Done([r EXCEPT !.reads = reads], FALSE)
               /\ IF Len(combinedContent) > 0
                  THEN /\ rooIgnoreContent' = Join(combinedContent, "\n")
                       /\ ignoreInstance' =
                              IgnoreAdd(IgnoreAdd(ignoreInstance, Join(combinedContent, "\n")),
                                        SelfHidingRule)
                  ELSE /\ rooIgnoreContent' = Undefined
                       /\ ignoreInstance' = ignoreInstance
    /\ UNCHANGED <<disposables, reloadTimeout, host>>
    /\ UNCHANGED <<sinceNotify, burst, timerReloads, initCalls, fsChanges, changedAfterDispose,
                   recording, disposeLog>>

\* the outer catch replacing the matcher but leaving the content in place
ReloadUnexpectedKeepsContent(r) ==
    /\ r \in BagToSet(inflight)
    /\ inflight' = inflight (-) SetToBag({r})
    /\ rooIgnoreContent' = rooIgnoreContent
    /\ ignoreInstance' = EmptyIgnore
    /\ pre' = NoPre
    /\ lastDone' = Done(r, TRUE)
    /\ UNCHANGED <<disposables, reloadTimeout, host>>
    /\ UNCHANGED <<sinceNotify, burst, timerReloads, initCalls, fsChanges, changedAfterDispose,
                   recording, disposeLog>>

\* the outer catch throwing again: the activation ends as a rejected
\* promise that nothing handles
ReloadUnexpectedRethrows(r) ==
    /\ r \in BagToSet(inflight)
    /\ r.pc # "rejected"
    /\ inflight' = (inflight (-) SetToBag({r})) (+) SetToBag({[r EXCEPT !.pc = "rejected"]})
    /\ rooIgnoreContent' = Undefined
    /\ ignoreInstance' = EmptyIgnore
    /\ pre' = NoPre
    /\ lastDone' = Done(r, TRUE)
    /\ UNCHANGED <<disposables, reloadTimeout, host>>
    /\ UNCHANGED <<sinceNotify, burst, timerReloads, initCalls, fsChanges, changedAfterDispose,
                   recording, disposeLog>>

\* the outer catch: an exception outside the per-file handler ends the
\* activation with the content cleared and a fresh matcher
ReloadUnexpected(r) ==
    /\ r \in BagToSet(inflight)
    /\ inflight' = inflight (-) SetToBag({r})
    /\ rooIgnoreContent' = Undefined
    /\ ignoreInstance' = EmptyIgnore
    /\ pre' = NoPre
    /\ lastDone' = Done(r, TRUE)
    /\ UNCHANGED <<disposables, reloadTimeout, host>>
    /\ UNCHANGED <<sinceNotify, burst, timerReloads, initCalls, fsChanges, changedAfterDispose,
                   recording, disposeLog>>

\* initialize()
initialize ==
    /\ initCalls' = initCalls + 1
    /\ loadRooIgnore
    /\ UNCHANGED <<disposables, reloadTimeout, host>>
    /\ UNCHANGED <<sinceNotify, burst, timerReloads, fsChanges, changedAfterDispose, recording, disposeLog>>

(***************************************************************************)
(* The change-reactive reload: watcher events, the debounce timer, dispose.*)
(***************************************************************************)

Min(a, b) == IF a < b THEN a ELSE b
Max(a, b) == IF a > b THEN a ELSE b

\* clearTimeout(handle): the timer with that handle, if still armed, is gone
ClearTimeout(ts, handle) == {t \in ts : t.id # handle}

\* debouncedReload arming a new timer without clearing the stored one
debouncedReloadNoClear ==
    /\ timersCreated' = timersCreated + 1
    /\ timers' = timers \cup {[id |-> timersCreated + 1, remaining |-> reloadDebounceMs]}
    /\ reloadTimeout' = timersCreated + 1
    /\ burst' = (burst /\ (timersCreated = 0 \/ sinceNotify < reloadDebounceMs))
    /\ sinceNotify' = 0

\* debouncedReload: the stored timer is cleared and a new one armed
debouncedReload ==
    /\ timersCreated' = timersCreated + 1
    /\ timers' = (IF reloadTimeout # NoTimer THEN ClearTimeout(timers, reloadTimeout) ELSE timers)
                 \cup {[id |-> timersCreated + 1, remaining |-> reloadDebounceMs]}
    /\ reloadTimeout' = timersCreated + 1
    /\ burst' = (burst /\ (timersCreated = 0 \/ sinceNotify < reloadDebounceMs))
    /\ sinceNotify' = 0

\* the subscription a kind of event is delivered through
ListenerOf(kind) ==
    CASE kind = "change" -> "onDidChange"
      [] kind = "create" -> "onDidCreate"
      [] kind = "delete" -> "onDidDelete"

\* the host delivers an event only while the watcher and the subscription
\* for its kind are live
Delivered(kind) == "fileWatcher" \in registered /\ ListenerOf(kind) \in registered

\* the watcher's pattern is <cwd>/**/.kilocodeignore
Watched(filePath) == StartsWith(filePath, cwd \o "/")

EventKind(old, new) ==
    IF old = Absent THEN "create" ELSE IF new = Absent THEN "delete" ELSE "change"

\* what an ignore-file event under cwd does to the controller
OnWatchedEvent(kind) ==
    IF Delivered(kind)
    THEN /\ timersCreated < MaxNotifications
         /\ debouncedReload
         /\ UNCHANGED changedAfterDispose
    ELSE /\ changedAfterDispose' = (changedAfterDispose \/ disposables = <<>>)
         /\ UNCHANGED <<reloadTimeout, timers, timersCreated, burst, sinceNotify>>

\* a change on disk that takes effect in the controller at once, the combined
\* text being dropped without a reload
FsChangeDropsContent(filePath, new) ==
    /\ fsChanges < MaxFsChanges
    /\ new # files[filePath]
    /\ files' = [files EXCEPT ![filePath] = new]
    /\ fsChanges' = fsChanges + 1
    /\ rooIgnoreContent' = Undefined
    /\ IF Watched(filePath)
       THEN OnWatchedEvent(EventKind(files[filePath], new))
       ELSE UNCHANGED <<reloadTimeout, timers, timersCreated, burst, sinceNotify,
                        changedAfterDispose>>
    /\ UNCHANGED <<ignoreInstance, disposables, registered, inflight>>
    /\ UNCHANGED <<timerReloads, initCalls, recording, disposeLog, pre, lastDone>>

\* an ignore-file of the hierarchy is created, rewritten, made unreadable or
\* deleted; the one in cwd is under watch, those above cwd are not
FsChange(filePath, new) ==
    /\ fsChanges < MaxFsChanges
    /\ new # files[filePath]
    /\ files' = [files EXCEPT ![filePath] = new]
    /\ fsChanges' = fsChanges + 1
    /\ IF Watched(filePath)
       THEN OnWatchedEvent(EventKind(files[filePath], new))
       ELSE UNCHANGED <<reloadTimeout, timers, timersCreated, burst, sinceNotify,
                        changedAfterDispose>>
    /\ UNCHANGED <<rooIgnoreContent, ignoreInstance, disposables, registered, inflight>>
    /\ UNCHANGED <<timerReloads, initCalls, recording, disposeLog, pre, lastDone>>

\* an ignore-file in a subdirectory of cwd changes: it is under watch but is
\* no part of the hierarchy of cwd
NestedFileEvent(kind) ==
    /\ Delivered(kind) \/ ~changedAfterDispose
    /\ OnWatchedEvent(kind)
    /\ UNCHANGED <<rooIgnoreContent, ignoreInstance, disposables, files, registered, inflight>>
    /\ UNCHANGED <<timerReloads, initCalls, fsChanges, recording, disposeLog, pre, lastDone>>

\* time passes
Tick ==
    /\ sinceNotify < reloadDebounceMs \/ \E t \in timers : t.remaining > 0
    /\ timers' = {[t EXCEPT !.remaining = Max(t.remaining - TickMs, 0)] : t \in timers}
    /\ sinceNotify' = Min(sinceNotify + TickMs, reloadDebounceMs)
    /\ UNCHANGED <<engine, files, registered, timersCreated, inflight>>
    /\ UNCHANGED <<burst, timerReloads, initCalls, fsChanges, changedAfterDispose, recording,
                   disposeLog, pre, lastDone>>

\* a timer whose callback starts no reload
TimerFireNoReload(t) ==
    /\ t \in timers
    /\ t.remaining = 0
    /\ timers' = timers \ {t}
    /\ UNCHANGED <<engine, files, registered, timersCreated, inflight, history>>

\* an armed timer whose delay has elapsed fires: its callback calls
\* loadRooIgnore
TimerFire(t) ==
    /\ t \in timers
    /\ t.remaining = 0
    /\ timers' = timers \ {t}
    /\ timerReloads' = timerReloads + 1
    /\ loadRooIgnore
    /\ UNCHANGED <<disposables, reloadTimeout, files, registered, timersCreated>>
    /\ UNCHANGED <<sinceNotify, burst, initCalls, fsChanges, changedAfterDispose, recording, disposeLog>>

\* the history of dispose() calls after one that called dispose() on each
\* element of a list: the list, and how many reloads were in flight
Disposed(list) ==
    IF recording
    THEN Append(disposeLog, [released |-> list, running |-> inflight # EmptyBag])
    ELSE disposeLog

\* dispose() emptying the list without disposing its elements
disposeKeepsSubscriptions ==
    /\ Len(disposeLog) < MaxDisposes
    /\ registered' = registered
    /\ disposables' = <<>>
    /\ disposeLog' = Disposed(<<>>)
    /\ UNCHANGED <<rooIgnoreContent, ignoreInstance, reloadTimeout>>
    /\ UNCHANGED <<files, timers, timersCreated, inflight>>
    /\ UNCHANGED <<sinceNotify, burst, timerReloads, initCalls, fsChanges, changedAfterDispose,
                   recording, pre, lastDone>>

\* dispose() disposing the elements of the list without emptying it
disposeKeepsList ==
    /\ Len(disposeLog) < MaxDisposes
    /\ registered' = registered \ {disposables[i] : i \in 1..Len(disposables)}
    /\ disposables' = disposables
    /\ disposeLog' = Disposed(disposables)
    /\ UNCHANGED <<rooIgnoreContent, ignoreInstance, reloadTimeout>>
    /\ UNCHANGED <<files, timers, timersCreated, inflight>>
    /\ UNCHANGED <<sinceNotify, burst, timerReloads, initCalls, fsChanges, changedAfterDispose,
                   recording, pre, lastDone>>

\* dispose() abandoning the reloads in flight
disposeCancelsReloads ==
    /\ Len(disposeLog) < MaxDisposes
    /\ registered' = registered \ {disposables[i] : i \in 1..Len(disposables)}
    /\ disposables' = <<>>
    /\ disposeLog' = Disposed(disposables)
    /\ inflight' = EmptyBag
    /\ UNCHANGED <<rooIgnoreContent, ignoreInstance, reloadTimeout>>
    /\ UNCHANGED <<files, timers, timersCreated>>
    /\ UNCHANGED <<sinceNotify, burst, timerReloads, initCalls, fsChanges, changedAfterDispose,
                   recording, pre, lastDone>>

\* dispose(): every disposable is disposed, and the list emptied
dispose ==
    /\ Len(disposeLog) < MaxDisposes
    /\ registered' = registered \ {disposables[i] : i \in 1..Len(disposables)}
    /\ disposables' = <<>>
    /\ disposeLog' = Disposed(disposables)
    /\ UNCHANGED <<rooIgnoreContent, ignoreInstance, reloadTimeout>>
    /\ UNCHANGED <<files, timers, timersCreated, inflight>>
    /\ UNCHANGED <<sinceNotify, burst, timerReloads, initCalls, fsChanges, changedAfterDispose,
                   recording, pre, lastDone>>

(***************************************************************************)
(* Calls of the validators: they read the engine state and change nothing. *)
(***************************************************************************)

\* a validateAccess call that replaces the matcher by a fresh one
ValidateAccessCallResetting(filePath) ==
    /\ validateAccess(filePath) \in [ok : BOOLEAN, val : BOOLEAN]
    /\ ignoreInstance' = EmptyIgnore
    /\ UNCHANGED <<rooIgnoreContent, disposables, reloadTimeout, host, inflight, history>>

ValidateAccessCall(filePath) ==
    /\ validateAccess(filePath) \in [ok : BOOLEAN, val : BOOLEAN]
    /\ UNCHANGED vars

ValidateCommandCall(command) ==
    /\ validateCommand(command) \in [ok : BOOLEAN, val : STRING]
    /\ UNCHANGED vars

FilterPathsCall(paths) ==
    /\ filterPaths(paths).ok \in BOOLEAN
    /\ UNCHANGED vars

GetInstructionsCall ==
    /\ getInstructions \in [ok : BOOLEAN, val : STRING]
    /\ UNCHANGED vars

(***************************************************************************)
(* Specifications.                                                         *)
(***************************************************************************)

\* the reload sequence, whoever starts it, against a changing disk, with the
\* histories of what each reload did; the validators are synchronous reads,
\* so what a call made between two steps answers is what they give in the
\* state between them
Next ==
    \/ initialize
    \/ \E r \in BagToSet(inflight) : AccessDone(r)
    \/ \E r \in BagToSet(inflight) : ReadDone(r)
    \/ \E r \in BagToSet(inflight) : ReloadUnexpected(r)
    \/ \E f \in HierarchyFiles : \E s \in FileStates(f) : FsChange(f, s)

Spec == Init /\ [][Next]_vars

\* the same, without the histories, and with the validators called between
\* the steps of the reloads
InitCalls ==
    /\ Construct
    /\ files \in [HierarchyFiles -> UNION {FileStates(f) : f \in HierarchyFiles}]
    /\ \A f \in HierarchyFiles : files[f] \in FileStates(f)
    /\ recording = FALSE

NextCalls ==
    \/ initialize
    \/ \E r \in BagToSet(inflight) : AccessDone(r)
    \/ \E r \in BagToSet(inflight) : ReadDone(r)
    \/ \E r \in BagToSet(inflight) : ReloadUnexpected(r)
    \/ \E f \in HierarchyFiles : \E s \in FileStates(f) : FsChange(f, s)
    \/ \E p \in Paths : ValidateAccessCall(p)
    \/ \E c \in Commands : ValidateCommandCall(c)
    \/ \E l \in PathLists : FilterPathsCall(l)
    \/ GetInstructionsCall

SpecCalls == InitCalls /\ [][NextCalls]_vars

\* the controller with its watcher, debounce timer and dispose(), the clock
\* running, on a workspace whose own ignore-file holds a pattern
InitWatch ==
    /\ Construct
    /\ files = [f \in HierarchyFiles |->
                   IF f = PathJoin(cwd, IgnoreFileName) THEN CwdPatterns ELSE Absent]
    /\ recording = FALSE

NextWatch ==
    \/ initialize
    \/ \E r \in BagToSet(inflight) : AccessDone(r)
    \/ \E r \in BagToSet(inflight) : ReadDone(r)
    \/ \E r \in BagToSet(inflight) : ReloadUnexpected(r)
    \/ \E f \in HierarchyFiles : \E s \in FileStates(f) : FsChange(f, s)
    \/ \E kind \in {"change", "create", "delete"} : NestedFileEvent(kind)
    \/ Tick
    \/ \E t \in timers : TimerFire(t)
    \/ dispose

SpecWatch == InitWatch /\ [][NextWatch]_vars

\* the controller's life from construction to after dispose(), on a
\* workspace whose own ignore-file holds a pattern: reloads, notifications,
\* the debounce timer and dispose() calls, with the histories kept
InitLife ==
    /\ Construct
    /\ files = [f \in HierarchyFiles |->
                   IF f = PathJoin(cwd, IgnoreFileName) THEN CwdPatterns ELSE Absent]
    /\ recording = TRUE

NextLife ==
    \/ initialize
    \/ \E r \in BagToSet(inflight) : AccessDone(r)
    \/ \E r \in BagToSet(inflight) : ReadDone(r)
    \/ \E r \in BagToSet(inflight) : ReloadUnexpected(r)
    \/ \E kind \in {"change", "create", "delete"} : NestedFileEvent(kind)
    \/ Tick
    \/ \E t \in timers : TimerFire(t)
    \/ dispose

SpecLife == InitLife /\ [][NextLife]_vars

\* a step of a reload in flight: its awaited call settles, as the reload
\* expects or not
ReloadStep ==
    \E r \in BagToSet(inflight) : ReloadUnexpected(r) \/ AccessDone(r) \/ ReadDone(r)

\* the same under the scheduling of the event loop: an awaited filesystem
\* call settles, the clock advances, and a timer whose delay has elapsed has
\* its callback run
SpecLifeFair ==
    /\ InitLife /\ [][NextLife]_vars
    /\ WF_vars(ReloadStep)
    /\ WF_vars(Tick)
    /\ WF_vars(\E t \in timers : TimerFire(t))

\* reloads started by initialize() and by the debounce timer, on a disk
\* holding any ignore-files, missing, unreadable, blank or with patterns
InitReloads ==
    /\ Construct
    /\ files \in [HierarchyFiles -> UNION {FileStates(f) : f \in HierarchyFiles}]
    /\ \A f \in HierarchyFiles : files[f] \in FileStates(f)
    /\ recording = FALSE

NextReloads ==
    \/ initialize
    \/ \E r \in BagToSet(inflight) : AccessDone(r)
    \/ \E r \in BagToSet(inflight) : ReadDone(r)
    \/ \E r \in BagToSet(inflight) : ReloadUnexpected(r)
    \/ \E kind \in {"change", "create", "delete"} : NestedFileEvent(kind)
    \/ Tick
    \/ \E t \in timers : TimerFire(t)

SpecReloads == InitReloads /\ [][NextReloads]_vars

\* the same, every awaited filesystem call of a reload settling
SpecReloadsFair ==
    /\ InitReloads /\ [][NextReloads]_vars
    /\ WF_vars(ReloadStep)

\* the upward walk alone, from any start directory, on a disk where each
\* ignore-file on the way to the filesystem root is there or not; the walk
\* has returned when its activation is about to read the first file found,
\* or has ended with none found
InitWalk ==
    /\ Construct
    /\ files \in [WalkFiles -> {Absent, ParentPatterns}]
    /\ recording = TRUE

NextWalk ==
    \/ \E targetPath \in StartDirs : findKilocodeIgnoreFiles(targetPath)
    \/ \E r \in BagToSet(inflight) : AccessDone(r)

SpecWalk == InitWalk /\ [][NextWalk]_vars

\* the same under the scheduling of the event loop: an awaited fs.access
\* settles
SpecWalkFair ==
    /\ InitWalk /\ [][NextWalk]_vars
    /\ WF_vars(\E r \in BagToSet(inflight) : AccessDone(r))

\* a workspace with no ignore-file at first, in which the ignore-file of cwd
\* is created, rewritten or deleted, every change notified to the
\* controller; reloads are started by initialize() and by the debounce
\* timer, and every filesystem call settles as the reload expects
InitSettle ==
    /\ Construct
    /\ files = [f \in HierarchyFiles |-> Absent]
    /\ recording = FALSE

NextSettle ==
    \/ initialize
    \/ \E r \in BagToSet(inflight) : AccessDone(r)
    \/ \E r \in BagToSet(inflight) : ReadDone(r)
    \/ \E s \in FileStates(PathJoin(cwd, IgnoreFileName)) :
          FsChange(PathJoin(cwd, IgnoreFileName), s)
    \/ Tick
    \/ \E t \in timers : TimerFire(t)

SpecSettle == InitSettle /\ [][NextSettle]_vars

(***************************************************************************)
(* Properties.                                                             *)
(***************************************************************************)

\* the combined text a completed reload is to install, from the files it
\* found and what reading each gave
RECURSIVE LoadedBlocks(_, _, _)
LoadedBlocks(found, reads, i) ==
    IF i > Len(reads) THEN <<>>
    ELSE (IF reads[i] # Throw /\ Trim(reads[i]) # ""
          THEN <<"# From: " \o Relative(cwd, found[i]), reads[i]>>
          ELSE <<>>) \o LoadedBlocks(found, reads, i + 1)

LoadedText(d) ==
    IF d.failed \/ LoadedBlocks(d.found, d.reads, 1) = <<>> THEN Undefined
    ELSE Join(LoadedBlocks(d.found, d.reads, 1), "\n")

\* the matcher compiled from a combined text alone
Compiled(text) ==
    IF text = Undefined THEN EmptyIgnore
    ELSE IgnoreAdd(IgnoreAdd(EmptyIgnore, text), SelfHidingRule)

\* C1: while a reload that started with no other in flight is running, every
\* validator answers as it did from the state the reload started from
C1_ValidatorsAnswerFromCompleteState ==
    pre.solo =>
        /\ \A p \in Paths : validateAccess(p) = ValidateAccessIn(pre.content, pre.inst, p)
        /\ \A c \in Commands : validateCommand(c) = ValidateCommandIn(pre.content, pre.inst, c)
        /\ \A l \in PathLists : filterPaths(l) = FilterPathsIn(pre.content, pre.inst, l)

\* C2: once dispose() has returned, no timer starts a reload
C2_NoTimerReloadAfterDispose ==
    [][disposables = <<>> => timerReloads' = timerReloads]_vars

\* C3: when every reload has finished, the combined text and the matcher are
\* exactly what the reload that finished last computed from the files it read
C3_LastFinisherWins ==
    (inflight = EmptyBag /\ lastDone.n = 1) =>
        /\ rooIgnoreContent = LoadedText(lastDone)
        /\ ignoreInstance = Compiled(LoadedText(lastDone))

\* C4: at most one debounce timer is armed; notifications that each come less
\* than the debounce delay after the one before lead to one reload, and that
\* reload starts only when the delay has passed since the last of them
C4_BurstGivesOneReload ==
    /\ Cardinality(timers) <= 1
    /\ (burst /\ timersCreated >= 1) => timerReloads + Cardinality(timers) = 1
    /\ (burst /\ timerReloads >= 1) => sinceNotify >= reloadDebounceMs

C4_Witness == burst /\ timersCreated >= 2 /\ timerReloads = 1 /\ timers = {}

\* C5: after dispose() no step arms a timer or stores a new timer handle
C5_NoTimerArmedAfterDispose ==
    [][disposables = <<>> =>
          /\ timersCreated' = timersCreated
          /\ reloadTimeout' = reloadTimeout
          /\ {t.id : t \in timers'} \subseteq {t.id : t \in timers}]_vars

C5_Witness == disposables = <<>> /\ registered = {} /\ changedAfterDispose

\* C6: with the combined text undefined, every path is accessible and no
\* command is blocked
C6_SentinelAllowsEverything ==
    rooIgnoreContent = Undefined =>
        /\ \A p \in Paths : validateAccess(p) = Returned(TRUE)
        /\ \A c \in Commands : validateCommand(c) = Returned(Undefined)

C6_Witness == rooIgnoreContent = Undefined /\ ignoreInstance # EmptyIgnore

\* C7 as claimed: after a reload has completed, the combined text is
\* undefined exactly when no file was found or every found file was read and
\* held only whitespace
C7_UndefinedIffNoneFoundOrAllEmpty ==
    (lastDone.n = 1 /\ ~lastDone.failed) =>
        (rooIgnoreContent = Undefined <=>
            \A i \in 1..Len(lastDone.found) :
                lastDone.reads[i] # Throw /\ Trim(lastDone.reads[i]) = "")

\* C7 amended: after a reload has completed, the combined text is undefined
\* exactly when the reload ended in the outer catch, or no file was found, or
\* every found file could not be read or held only whitespace
C7_UndefinedIffNothingLoaded ==
    lastDone.n = 1 =>
        (rooIgnoreContent = Undefined <=>
            \/ lastDone.failed
            \/ \A i \in 1..Len(lastDone.found) :
                  lastDone.reads[i] = Throw \/ Trim(lastDone.reads[i]) = "")

C7_Witness ==
    /\ lastDone.n = 1 /\ ~lastDone.failed
    /\ rooIgnoreContent = Undefined
    /\ \E i \in 1..Len(lastDone.found) : lastDone.reads[i] = Throw

\* C8: a reload in which a read failed has completed and no reload has
\* started since: the combined text is that of the files that were read, and
\* every path their patterns block is inaccessible
C8_PartialLoadKeepsOtherFiles ==
    (/\ lastDone.n = 1 /\ lastDone.fresh /\ ~lastDone.failed
     /\ \E i \in 1..Len(lastDone.reads) : lastDone.reads[i] = Throw) =>
        /\ rooIgnoreContent = LoadedText(lastDone)
        /\ \A p \in Paths :
              ~ValidateAccessIn(LoadedText(lastDone), Compiled(LoadedText(lastDone)), p).val
                  => validateAccess(p) = Returned(FALSE)

C8_Witness ==
    /\ lastDone.n = 1 /\ lastDone.fresh /\ ~lastDone.failed
    /\ Len(lastDone.reads) = 2 /\ lastDone.reads[1] = Throw
    /\ validateAccess("secrets/key") = Returned(FALSE)

C10_ValidatorsNeverRaise ==
    /\ \A p \in Paths : validateAccess(p).ok
    /\ \A c \in Commands : validateCommand(c).ok
    /\ \A l \in PathLists : filterPaths(l).ok
    /\ getInstructions.ok

C10_Witness ==
    /\ rooIgnoreContent # Undefined /\ ignoreInstance # EmptyIgnore
    /\ inflight # EmptyBag
    /\ ~Ignores(ignoreInstance, ToPosix("../outside")).ok

\* C11: a reload that overlapped no other has completed and none has started
\* since: the combined text and the matcher are what the files it found and
\* read give, whatever was loaded before; with no file found every path is
\* accessible
C11_ReloadLeavesNoResidue ==
    (lastDone.n = 1 /\ lastDone.solo /\ lastDone.fresh) =>
        /\ rooIgnoreContent = LoadedText(lastDone)
        /\ ignoreInstance = Compiled(LoadedText(lastDone))
        /\ lastDone.found = <<>> => \A p \in Paths : validateAccess(p) = Returned(TRUE)

C11_Witness ==
    /\ lastDone.n = 1 /\ lastDone.solo /\ lastDone.fresh /\ ~lastDone.failed
    /\ lastDone.had /\ lastDone.found = <<>>
    /\ validateAccess("secrets/key") = Returned(TRUE)

\* whether a candidate path, resolved against cwd, lies outside cwd
Outside(p) ==
    LET rel == Relative(cwd, Resolve(cwd, p)) IN rel = ".." \/ StartsWith(rel, "../")

\* the candidates that lie outside cwd
OutsidePaths == {p \in Paths : p # "" /\ Outside(p)}

LinksIntoRoot ==
    {p \in Paths : /\ Resolve(cwd, p) \in DOMAIN SymlinkTarget
                   /\ ~Outside(SymlinkTarget[Resolve(cwd, p)])}

LinkTarget == [p \in LinksIntoRoot |-> Relative(cwd, SymlinkTarget[Resolve(cwd, p)])]

\* C13: with restrictions active, a candidate that is a symlink whose target
\* lies inside the workspace root and is matched by the active patterns is
\* inaccessible, whatever the patterns say of the candidate's own name
C13_SymlinkToIgnoredTargetBlocked ==
    ~NoContent(rooIgnoreContent) =>
        \A p \in LinksIntoRoot :
            Ignores(ignoreInstance, LinkTarget[p]).val => validateAccess(p) = Returned(FALSE)

C13_Witness ==
    /\ ~NoContent(rooIgnoreContent)
    /\ Ignores(ignoreInstance, "secrets/key").val
    /\ ~Ignores(ignoreInstance, "link").val
    /\ validateAccess("link") = Returned(FALSE)

\* the candidates inside cwd whose resolved path lies outside it
EscapingLinks ==
    {p \in Paths : /\ p # "" /\ ~Outside(p)
                   /\ RealpathSync(Resolve(cwd, p)) # Throw
                   /\ Outside(RealpathSync(Resolve(cwd, p)))}

BlockedTokens(command) ==
    LET parts == PartsOf(command) IN
    {i \in 2..Len(parts) :
        /\ ~StartsWith(parts[i], "-") /\ ~StartsWith(parts[i], "/")
        /\ ~Includes(parts[i], ":")
        /\ validateAccess(parts[i]) = Returned(FALSE)}

\* C15: for a command whose first token, lower-cased, is a file-reading
\* command, validateCommand returns the leftmost later token that is neither a
\* flag nor a colon token and is inaccessible, and nothing when there is none;
\* tokens after a pipe are scanned like the others
C15_LeftmostBlockedTokenReturned ==
    \A c \in Commands :
        LET parts == PartsOf(c)
            blocked == BlockedTokens(c)
        IN ToLowerCase(parts[1]) \in fileReadingCommands =>
              validateCommand(c) =
                  Returned(IF blocked = {} THEN Undefined
                           ELSE parts[CHOOSE i \in blocked : \A j \in blocked : i <= j])

C15_Witness ==
    /\ Cardinality(BlockedTokens("grep key src/app.ts debug.log secrets/key")) = 2
    /\ validateCommand("grep key src/app.ts debug.log secrets/key") = Returned("debug.log")
    /\ validateCommand("cat src/app.ts | head /secrets/key x:debug.log secrets/key")
           = Returned("secrets/key")

\* C16: a command whose first token, lower-cased, is no file-reading command
\* is never blocked, whatever its arguments name
C16_OtherCommandsNeverBlocked ==
    \A c \in Commands :
        ToLowerCase(PartsOf(c)[1]) \notin fileReadingCommands
            => validateCommand(c) = Returned(Undefined)

C16_Witness ==
    /\ validateAccess("secrets/key") = Returned(FALSE)
    /\ validateCommand("cat secrets/key") = Returned("secrets/key")
    /\ validateCommand("ls secrets/key") = Returned(Undefined)

\* the elements of a list that validateAccess accepts, in the order of the
\* list
RECURSIVE AccessibleOf(_)
AccessibleOf(paths) ==
    IF paths = <<>> THEN <<>>
    ELSE (IF validateAccess(Head(paths)) = Returned(TRUE) THEN <<Head(paths)>> ELSE <<>>)
         \o AccessibleOf(Tail(paths))

\* C17: filterPaths returns exactly the elements validateAccess accepts, in
\* their order in the list and as often as they occur; the empty list gives
\* the empty list
C17_FilterKeepsAccessibleInOrder ==
    /\ \A l \in PathLists : filterPaths(l) = Returned(AccessibleOf(l))
    /\ filterPaths(<<>>) = Returned(<<>>)

C17_Witness ==
    filterPaths(<<"src/app.ts", "secrets/key", "", "src/app.ts", "debug.log", "important.log">>)
        = Returned(<<"src/app.ts", "", "src/app.ts", "important.log">>)

\* the outcomes of the validateAccess calls filterPaths makes for a list
\* when the call for element k raises
OutcomesRaisingAt(paths, k) ==
    [i \in 1..Len(paths) |-> IF i = k THEN Raised(TRUE) ELSE validateAccess(paths[i])]

\* C18: when validating an element raises inside filterPaths, the result is
\* the empty list, whichever element it is and however long the list
C18_FilterFailsClosed ==
    \A l \in PathLists : \A k \in 1..Len(l) :
        FilterByOutcomes(l, OutcomesRaisingAt(l, k)) = Returned(<<>>)

C18_Witness ==
    \E l \in PathLists :
        /\ ~NoContent(rooIgnoreContent)
        /\ filterPaths(l).val # <<>>
        /\ validateAccess(l[1]) = Returned(TRUE)
        /\ FilterByOutcomes(l, OutcomesRaisingAt(l, Len(l))) = Returned(<<>>)

\* candidates that are their own real path relative to cwd, and the parent
\* directories of each
CanonicalPaths ==
    {p \in Paths :
        /\ p # "" /\ ~Outside(p)
        /\ ToPosix(Relative(cwd, RealpathSync(Resolve(cwd, p)))) = p}

ParentDirs ==
    [p \in CanonicalPaths |->
        {Join(SubSeq(Split(p, "/"), 1, k), "/") \o "/" : k \in 1..Len(Split(p, "/")) - 1}]

\* those of them with no parent directory the matcher ignores
PlainPaths ==
    {p \in CanonicalPaths : \A dir \in ParentDirs[p] : ~Ignores(ignoreInstance, dir).val}

\* what the patterns of one ignore-file say of a path by themselves: the last
\* of its rules that matches the path decides
VerdictOf(text, p) ==
    LET rules == IgnoreAdd(EmptyIgnore, text)
        matching == {i \in 1..Len(rules) : RuleMatches(rules[i], Split(p, "/"), FALSE)}
    IN IF text = Throw \/ matching = {} THEN "none"
       ELSE IF rules[CHOOSE i \in matching : \A j \in matching : j <= i].negative
            THEN "allow" ELSE "block"

\* VerdictOf for whatever a read may give and the canonical candidates,
\* computed once
Verdicts ==
    [text \in {Throw} \cup UNION {FileStates(f) \ {Absent, Unreadable} : f \in HierarchyFiles} |->
        [p \in CanonicalPaths |-> VerdictOf(text, p)]]

Verdict(text, p) == Verdicts[text][p]

\* how many directories deep a file is
Depth(filePath) == Len(AbsSegs(filePath))

\* the files of the last completed load whose patterns say something of a path
Deciders(p) ==
    {i \in 1..Len(lastDone.reads) : Verdict(lastDone.reads[i], p) # "none"}

\* whether a load has completed, not in the outer catch, and no reload has
\* started since
LoadInEffect == lastDone.n = 1 /\ lastDone.fresh /\ ~lastDone.failed

C20_LayersAreCumulative ==
    LoadInEffect =>
        \A p \in PlainPaths :
            (\E i \in Deciders(p) :
                /\ Verdict(lastDone.reads[i], p) = "block"
                /\ \A j \in Deciders(p) :
                      Depth(lastDone.found[j]) > Depth(lastDone.found[i])
                          => Verdict(lastDone.reads[j], p) # "allow")
                => validateAccess(p) = Returned(FALSE)

C20_Witness ==
    /\ LoadInEffect
    /\ Len(lastDone.reads) = 2
    /\ Deciders("debug.log") = {1} /\ validateAccess("debug.log") = Returned(FALSE)
    /\ Deciders("secrets/key") = {2} /\ validateAccess("secrets/key") = Returned(FALSE)

\* String.prototype.includes
Contains(s, sub) ==
    \E i \in 1..(Len(s) - Len(sub) + 1) : SubSeq(s, i, i + Len(sub) - 1) = sub

\* how many provenance comments a text holds
Provenances(s) ==
    Cardinality({i \in 1..(Len(s) - 7) : SubSeq(s, i, i + 7) = "# From: "})

\* C21: getInstructions returns nothing exactly when the combined text is
\* undefined; otherwise it returns a block holding the current combined text
\* verbatim and the lock glyph, and no provenance comment but those of the
\* current combined text
C21_InstructionsReportCurrentText ==
    /\ getInstructions = Returned(Undefined) <=> rooIgnoreContent = Undefined
    /\ rooIgnoreContent # Undefined =>
          /\ getInstructions.ok
          /\ Contains(getInstructions.val, rooIgnoreContent)
          /\ Contains(getInstructions.val, LOCK_TEXT_SYMBOL)
          /\ Provenances(getInstructions.val) = Provenances(rooIgnoreContent)

C21_Witness ==
    /\ inflight # EmptyBag
    /\ Provenances(rooIgnoreContent) = 2
    /\ Contains(getInstructions.val, "# From: ../.kilocodeignore\n*.log\npath/src/app.ts\n# From: .kilocodeignore\n")

\* C22: the first dispose() call calls dispose() on every watch subscription
\* once and empties the list; a later call calls it on nothing and changes
\* nothing of the engine state, the subscriptions or the timers
C22_DisposeIsIdempotent ==
    [][Len(disposeLog') > Len(disposeLog) =>
          /\ disposables' = <<>>
          /\ UNCHANGED <<rooIgnoreContent, ignoreInstance, reloadTimeout, timers, inflight>>
          /\ IF Len(disposeLog) = 0
             THEN /\ disposeLog'[1].released = setupFileWatcher
                  /\ Cardinality({setupFileWatcher[i] : i \in 1..Len(setupFileWatcher)})
                         = Len(setupFileWatcher)
                  /\ registered' = {}
             ELSE /\ disposeLog'[Len(disposeLog')].released = <<>>
                  /\ UNCHANGED <<disposables, registered>>]_vars

C22_Witness ==
    /\ Len(disposeLog) = 2
    /\ disposeLog[1].released = setupFileWatcher /\ disposeLog[2].released = <<>>
    /\ registered = {} /\ disposables = <<>>

\* C23: a token of a command that begins with "-" or "/" or holds a ":" is
\* never the path validateCommand returns, and what validateCommand returns is
\* what it returns for the command without such tokens, even when they name
\* ignored files
C23_SkippedTokensNeverChecked ==
    \A c \in Commands :
        /\ validateCommand(c).ok
        /\ ~Skipped(validateCommand(c).val)
        /\ validateCommand(c) = validateCommand(Unskipped[c])

C23_Witness ==
    /\ validateAccess("-debug.log") = Returned(FALSE)
    /\ validateAccess("/test/path/secrets/key") = Returned(FALSE)
    /\ validateAccess("secrets/a:b") = Returned(FALSE)
    /\ validateCommand("cat -debug.log /test/path/secrets/key secrets/a:b src/app.ts")
           = Returned(Undefined)

\* the files of the last completed load that were read and held nothing but
\* whitespace, and those that were read and held more
BlankReads == {i \in 1..Len(lastDone.reads) : lastDone.reads[i] \in {"", "  \n"}}

FullReads ==
    {i \in 1..Len(lastDone.reads) : lastDone.reads[i] \notin {"", "  \n", Throw}}

\* the length of the blocks of a set of files of the last completed load,
\* each block a provenance comment and the file's text, a newline after each
RECURSIVE BlocksLength(_)
BlocksLength(indices) ==
    IF indices = {} THEN 0
    ELSE LET i == CHOOSE j \in indices : TRUE IN
         Len("# From: " \o Relative(cwd, lastDone.found[i])) + 1 + Len(lastDone.reads[i]) + 1
             + BlocksLength(indices \ {i})

\* C24: after a load, a found file that is empty or holds only whitespace has
\* no provenance comment in the combined text, which holds one block for each
\* file that held more and nothing else; when every found file is empty or
\* holds only whitespace, the combined text is undefined and every path is
\* accessible
C24_BlankFilesContributeNothing ==
    (LoadInEffect /\ BlankReads # {}) =>
        /\ \A i \in BlankReads :
              ~Contains(rooIgnoreContent, "# From: " \o Relative(cwd, lastDone.found[i]))
        /\ Provenances(rooIgnoreContent) = Cardinality(FullReads)
        /\ \A i \in FullReads :
              Contains(rooIgnoreContent,
                       "# From: " \o Relative(cwd, lastDone.found[i]) \o "\n" \o lastDone.reads[i])
        /\ FullReads # {} => Len(rooIgnoreContent) = BlocksLength(FullReads) - 1
        /\ BlankReads = 1..Len(lastDone.found) =>
              /\ rooIgnoreContent = Undefined
              /\ \A p \in Paths : validateAccess(p) = Returned(TRUE)

C24_Witness ==
    /\ LoadInEffect
    /\ lastDone.reads = <<"", "  \n">>
    /\ lastDone.had
    /\ rooIgnoreContent = Undefined

\* where a text first occurs in another, 0 when it does not
Position(s, sub) ==
    IF Contains(s, sub)
    THEN CHOOSE i \in 1..(Len(s) - Len(sub) + 1) :
            /\ SubSeq(s, i, i + Len(sub) - 1) = sub
            /\ \A j \in 1..(i - 1) : SubSeq(s, j, j + Len(sub) - 1) # sub
    ELSE 0

\* the block of a file of the last completed load: one provenance line with
\* the file's path relative to cwd, then the file's text
BlockOf(i) == "# From: " \o Relative(cwd, lastDone.found[i]) \o "\n" \o lastDone.reads[i]

\* whether the directory of one file is an ancestor of the directory of another
AncestorOf(a, b) == StartsWith(Dirname(b) \o "/", Dirname(a) \o "/") /\ Dirname(a) # Dirname(b)

\* C25: after a load, every file that held more than whitespace has its block
\* in the combined text, a provenance line followed by the file's text as
\* read, and the block of a file in an ancestor directory ends before the
\* block of a file below it begins
C25_BlocksAreRootFirst ==
    LoadInEffect =>
        /\ \A i \in FullReads : Position(rooIgnoreContent, BlockOf(i)) > 0
        /\ \A i, j \in FullReads :
              AncestorOf(lastDone.found[i], lastDone.found[j]) =>
                  Position(rooIgnoreContent, BlockOf(i)) + Len(BlockOf(i))
                      < Position(rooIgnoreContent, BlockOf(j))

C25_Witness ==
    /\ LoadInEffect
    /\ Cardinality(FullReads) = 2
    /\ rooIgnoreContent
           = "# From: ../.kilocodeignore\n*.log\npath/src/app.ts\n# From: .kilocodeignore\nsecrets/**\n!important.log"

\* the candidates inside cwd whose last segment is the ignore-file name
HiddenPaths ==
    {p \in IgnoreFilePaths :
        /\ ~Outside(p)
        /\ AbsSegs(Resolve(cwd, p))[Len(AbsSegs(Resolve(cwd, p)))] = IgnoreFileName}

\* C26: with restrictions active and no reload in flight, every path inside
\* cwd whose last segment is the ignore-file name is inaccessible; with the
\* combined text undefined the same paths are accessible
C26_IgnoreFilesAlwaysHidden ==
    /\ (~NoContent(rooIgnoreContent) /\ inflight = EmptyBag) =>
          \A p \in HiddenPaths : validateAccess(p) = Returned(FALSE)
    /\ rooIgnoreContent = Undefined =>
          \A p \in HiddenPaths : validateAccess(p) = Returned(TRUE)

\* a step of one of the four queries
QueryStep ==
    \/ \E p \in Paths : ValidateAccessCall(p)
    \/ \E c \in Commands : ValidateCommandCall(c)
    \/ \E l \in PathLists : FilterPathsCall(l)
    \/ GetInstructionsCall

\* a step of the reload sequence, of a notification handler or of dispose()
MutatorStep ==
    \/ initialize
    \/ \E t \in timers : TimerFire(t)
    \/ \E r \in BagToSet(inflight) : AccessDone(r) \/ ReadDone(r) \/ ReloadUnexpected(r)
    \/ \E kind \in {"change", "create", "delete"} :
          Delivered(kind) /\ timersCreated < MaxNotifications /\ debouncedReload
    \/ dispose

\* C27: a call of validateAccess, validateCommand, filterPaths or
\* getInstructions leaves the combined text, the matcher, the subscriptions,
\* the timer handle and the armed timers as they were; a step that changes
\* one of the controller's fields belongs to a reload, to a notification
\* handler or to dispose()
C27_QueriesChangeNothing ==
    [][/\ QueryStep => UNCHANGED <<engine, registered, timers, inflight>>
       /\ engine' # engine => MutatorStep]_vars

C27_Witness ==
    /\ ~NoContent(rooIgnoreContent) /\ timers # {} /\ inflight # EmptyBag
    /\ validateAccess("secrets/key") = Returned(FALSE)
    /\ validateCommand("cat secrets/key") = Returned("secrets/key")
    /\ filterPaths(<<"src/app.ts", "secrets/key", "", "src/app.ts", "debug.log", "important.log">>).val
           # <<>>
    /\ getInstructions # Returned(Undefined)

\* C28: dispose() leaves the reloads in flight as they are, and a reload in
\* flight on a disposed controller comes to its end, after which the combined
\* text is the one the reload that ended last computed
C28_DisposeCancelsNoReload ==
    /\ [][Len(disposeLog') > Len(disposeLog) => inflight' = inflight]_vars
    /\ (disposables = <<>> /\ inflight # EmptyBag)
           ~> (/\ disposables = <<>> /\ inflight = EmptyBag
               /\ lastDone.n = 1 /\ rooIgnoreContent = LoadedText(lastDone))

C28_Witness ==
    /\ Len(disposeLog) = 1 /\ disposeLog[1].running
    /\ initCalls = 1 /\ timerReloads = 0
    /\ inflight = EmptyBag /\ lastDone.n = 1 /\ ~lastDone.had
    /\ validateAccess("secrets/key") = Returned(FALSE)

\* whether the model's bound on reloads keeps a timer's callback from running
ReloadsExhausted == initCalls + timerReloads >= MaxReloads

\* C29: a timer armed by a notification, with no notification after it,
\* fires; the step in which a timer fires starts one reload and leaves no
\* timer armed, and none is armed again before the next notification
C29_NotificationLeadsToOneReload ==
    /\ \A k \in 1..MaxNotifications :
          (\E t \in timers : t.id = k)
              ~> (timers = {} \/ timersCreated > k \/ ReloadsExhausted)
    /\ [][/\ (timers # {} /\ timers' = {}) =>
                /\ timerReloads' = timerReloads + 1
                /\ inflight' = inflight (+) SetToBag({NewReload})
                /\ \A t \in timers : t.remaining = 0
          /\ timerReloads' # timerReloads => (timers # {} /\ timers' = {})
          /\ (timers = {} /\ timers' # {}) => timersCreated' = timersCreated + 1]_vars

C29_Witness ==
    /\ timersCreated = 1 /\ timerReloads = 1 /\ initCalls = 0
    /\ timers = {} /\ disposables # <<>>
    /\ inflight = EmptyBag /\ validateAccess("secrets/key") = Returned(FALSE)

\* the ignore-files of the hierarchy present on disk, root first, and what
\* reading each gives
DiskFound ==
    SelectSeq(Reverse([i \in 1..Len(HierarchyDirs) |->
                          PathJoin(HierarchyDirs[i], IgnoreFileName)]),
              LAMBDA f : files[f] # Absent)

DiskLoad ==
    [found |-> DiskFound, reads |-> [i \in 1..Len(DiskFound) |-> ReadFile(DiskFound[i])],
     failed |-> FALSE]

\* whether a step neither starts a reload nor ends one
Quiet ==
    /\ initCalls' = initCalls /\ timerReloads' = timerReloads
    /\ BagCardinality(inflight') >= BagCardinality(inflight)

\* C30: over a step in which no reload starts or ends, the combined text and
\* the matcher stay as they are, and validateAccess answers every path as
\* before although the disk has changed; and after initialize() has run alone
\* on a disk that did not change, validateAccess answers every path as the
\* files on disk determine, so that two controllers on the same files agree
C30_ValidateAccessIsDeterministic ==
    /\ [][Quiet =>
             /\ UNCHANGED <<rooIgnoreContent, ignoreInstance>>
             /\ files' # files =>
                   \A p \in Paths :
                       ValidateAccessIn(rooIgnoreContent', ignoreInstance', p)
                           = validateAccess(p)]_vars
    /\ []((/\ lastDone.n = 1 /\ lastDone.solo /\ lastDone.fresh /\ ~lastDone.failed
           /\ fsChanges = 0) =>
             \A p \in Paths :
                 validateAccess(p)
                     = ValidateAccessIn(LoadedText(DiskLoad), Compiled(LoadedText(DiskLoad)), p))

C30_Witness ==
    /\ lastDone.n = 1 /\ lastDone.solo /\ lastDone.fresh /\ ~lastDone.failed
    /\ fsChanges = 0 /\ initCalls = 2
    /\ validateAccess("debug.log") = Returned(FALSE)
    /\ validateAccess("important.log") = Returned(TRUE)

\* what the reads of a load may give, file by file, root first
ReadSeqs ==
    LET results == {Throw} \cup UNION {FileStates(f) \ {Absent, Unreadable} : f \in HierarchyFiles}
    IN {<<>>} \cup {<<a>> : a \in results} \cup {<<a, b>> : a \in results, b \in results}

\* the matcher holding the patterns of the texts read, in the order read, and
\* the self-hiding rule: the directories of the files take no part in it
PatternsInOrder(reads) ==
    LET texts == SelectSeq(reads, LAMBDA t : t # Throw /\ Trim(t) # "")
    IN IF texts = <<>> THEN EmptyIgnore
       ELSE IgnoreAdd(IgnoreAdd(EmptyIgnore, Join(texts, "\n")), SelfHidingRule)

\* whether these patterns ignore a canonical candidate, taken by its path
\* relative to cwd; computed once
IgnoredFromCwd ==
    [reads \in ReadSeqs |->
        [p \in CanonicalPaths |-> Ignores(PatternsInOrder(reads), p).val]]

DirsBelowRoot(dir) ==
    [k \in 1..Len(AbsSegs(dir)) |-> FromSegs(SubSeq(AbsSegs(dir), 1, k))]

\* the ignore-files present on disk in the directories of a list, in its order
ExistingIn(dirs) ==
    SelectSeq([i \in 1..Len(dirs) |-> PathJoin(dirs[i], IgnoreFileName)],
              LAMBDA f : files[f] # Absent)

\* the activations whose walk is going on
Walking == {r \in BagToSet(inflight) : r.pc = "access"}

NoneCompleted == BagCardinality(inflight) = initCalls + timerReloads

\* C33: until the first reload completes, the combined text is undefined,
\* every path is accessible, no command is blocked and there are no
\* instructions, whatever ignore-files are on disk and however far the
\* reloads in flight have come
C33_NoRestrictionsBeforeFirstLoad ==
    NoneCompleted =>
        /\ rooIgnoreContent = Undefined
        /\ \A p \in Candidates : validateAccess(p) = Returned(TRUE)
        /\ \A c \in Commands : validateCommand(c) = Returned(Undefined)
        /\ \A l \in PathLists : filterPaths(l) = Returned(l)
        /\ getInstructions = Returned(Undefined)

C33_Witness ==
    /\ NoneCompleted /\ initCalls = 1
    /\ files[PathJoin(cwd, IgnoreFileName)] = CwdPatterns
    /\ \E r \in BagToSet(inflight) :
          /\ r.pc = "read" /\ r.idx = 2
          /\ r.combined = <<"# From: ../.kilocodeignore", ParentPatterns>>
    /\ validateAccess("debug.log") = Returned(TRUE)
    /\ validateCommand("cat secrets/key") = Returned(Undefined)

\* C34: a reload in flight is always waiting for a filesystem call, never
\* left as a failure; whoever started it and whatever the ignore-files are,
\* it comes to its end once its filesystem calls settle
C34_ReloadsNeverReject ==
    /\ [](\A r \in BagToSet(inflight) : r.pc \in {"access", "read"})
    /\ [][BagCardinality(inflight') < BagCardinality(inflight) =>
              /\ BagCardinality(inflight') = BagCardinality(inflight) - 1
              /\ \A r \in BagToSet(inflight') : r.pc \in {"access", "read"}]_vars
    /\ (inflight # EmptyBag) ~> (inflight = EmptyBag)

C34_Witness ==
    /\ initCalls = 1 /\ timerReloads = 1 /\ inflight = EmptyBag
    /\ files[PathJoin(cwd, IgnoreFileName)] = Unreadable
    /\ files[PathJoin(Dirname(cwd), IgnoreFileName)] = ParentPatterns
    /\ validateAccess("debug.log") = Returned(FALSE)
    /\ validateAccess("secrets/key") = Returned(TRUE)

\* the candidates that are links to a target inside cwd, and the path of
\* each one's target relative to cwd
LinksInside ==
    {p \in Candidates : /\ Resolve(cwd, p) \in DOMAIN SymlinkTarget
                        /\ ~Outside(SymlinkTarget[Resolve(cwd, p)])}

TargetInside == [p \in LinksInside |-> Relative(cwd, SymlinkTarget[Resolve(cwd, p)])]

\* C35: with restrictions active, a candidate that is a link to a target
\* inside cwd is accessible exactly when the patterns do not ignore the
\* target's path; so it is accessible when they ignore the candidate's own
\* path and not the target's
C35_LinkDecidedByTargetAlone ==
    ~NoContent(rooIgnoreContent) =>
        \A p \in LinksInside :
            /\ validateAccess(p) = Returned(~Ignores(ignoreInstance, TargetInside[p]).val)
            /\ (Ignores(ignoreInstance, p).val /\ ~Ignores(ignoreInstance, TargetInside[p]).val)
                   => validateAccess(p) = Returned(TRUE)

C35_Witness ==
    /\ ~NoContent(rooIgnoreContent)
    /\ TargetInside["secrets/safe"] = "src/app.ts"
    /\ Ignores(ignoreInstance, "secrets/safe").val
    /\ ~Ignores(ignoreInstance, "src/app.ts").val
    /\ validateAccess("secrets/safe") = Returned(TRUE)
    /\ validateAccess("secrets/key") = Returned(FALSE)

\* whether no timer is armed, no reload is in flight and a reload has run
Settled == timers = {} /\ inflight = EmptyBag /\ initCalls + timerReloads >= 1

\* C36: when no timer is armed and every reload has finished, the combined
\* text is the one a load of the files as they are now gives, and every path
\* is answered as by the matcher compiled from that text
C36_SettledStateIsFreshLoad ==
    Settled =>
        /\ rooIgnoreContent = LoadedText(DiskLoad)
        /\ \A p \in Paths :
              validateAccess(p)
                  = ValidateAccessIn(LoadedText(DiskLoad), Compiled(LoadedText(DiskLoad)), p)

====
